---- MODULE Spec2Model ----
(***************************************************************************)
(* A model of the two MCP example servers of python/sse/app.py (the        *)
(* session-registry transport: GET /sse, POST /message) and of             *)
(* python/streamable/app.py (the streamable transport: POST /mcp).         *)
(*                                                                         *)
(* JSON values are tagged records, so that values of different JSON types  *)
(* are comparable: [null |-> TRUE], [num |-> n], [str |-> s] (a string     *)
(* used as a name: a method, a tool name, a key), [text |-> <<c1, ..>>] (a *)
(* string spelled character by character, so that str.upper acts on it),   *)
(* [arr |-> <<v1, ..>>] and [obj |-> f], f a function from keys to values.  *)
(* A key that is absent from an object is absent from DOMAIN f.            *)
(***************************************************************************)
EXTENDS Integers, Sequences, FiniteSets, TLC

\* ------------------------------------------------------------------ bounds
NumStreams == 2     \* GET /sse connections
NumPosts == 2       \* POST /message requests
NumReqs == 2        \* POST /mcp requests
MaxStrLen == 1      \* longest tools/call input string

\* ------------------------------------------------------- program constants
ProgressSteps == 10
MethodNotFound == -32601
InvalidParams == -32602

\* ------------------------------------------------------------- JSON values
Null == [null |-> TRUE]
Str(s) == [str |-> s]
Text(cs) == [text |-> cs]
Num(n) == [num |-> n]
Bool(b) == [bool |-> b]
Arr(vs) == [arr |-> vs]
Obj(f) == [obj |-> f]
EmptyObj == Obj(<<>>)

IsObj(v) == DOMAIN v = {"obj"}
IsText(v) == DOMAIN v = {"text"}

\* Python's dict.get(key, default) on a value known to be a dict.
DictGet(d, key, default) == IF key \in DOMAIN d.obj THEN d.obj[key] ELSE default

\* What a handler does when a Python exception escapes it.
Raised == [raise |-> "AttributeError"]
IsRaised(v) == DOMAIN v = {"raise"}

\* ------------------------------------------------------------- str.upper()
UpperChar(c) ==
    CASE c = "a" -> "A"
      [] c = "b" -> "B"
      [] c = "e" -> "E"
      [] c = "n" -> "N"
      [] c = "o" -> "O"
      [] OTHER -> c

PyUpper(cs) == [i \in 1..Len(cs) |-> UpperChar(cs[i])]

\* sse/app.py perform_to_uppercase: text.upper(), an AttributeError for a
\* value that is not a str.
perform_to_uppercase(v) == IF IsText(v) THEN Text(PyUpper(v.text)) ELSE Raised

Digits == <<"0", "1", "2", "3", "4", "5", "6", "7", "8", "9">>

\* Python's str(v) for the values a tools/call input takes here.
PyStr(v) ==
    CASE IsText(v) -> v.text
      [] DOMAIN v = {"num"} -> <<Digits[v.num + 1]>>
      [] DOMAIN v = {"null"} -> <<"N", "o", "n", "e">>
      [] DOMAIN v = {"bool"} -> IF v.bool THEN <<"T", "r", "u", "e">>
                                ELSE <<"F", "a", "l", "s", "e">>
      [] OTHER -> <<"?">>

\* ----------------------------------------------------------- event framing
\* format_sse: f"event: {event}\ndata: {data}\n\n", kept as its pieces.
format_sse(event, data) == <<"event: ", event, "\ndata: ", data, "\n\n">>
EventOf(frame) == frame[2]
DataOf(frame) == frame[4]

\* json.dumps(value): the serialised text of a value, kept as the value
\* under a marker (the servers never parse it back).
json_dumps(v) == <<"json", v>>
JsonOf(data) == data[2]

\* ---------------------------------------------------- JSON-RPC envelopes
ServerInfo ==
    Obj([protocolVersion |-> Str("2025-03-26"),
         serverInfo |-> Obj([name |-> Str("Python To-Uppercase Server"),
                             version |-> Str("1.0.0")]),
         capabilities |-> Obj([tools |-> Obj([listChanged |-> Bool(TRUE)])])])

InputSchema ==
    Obj([type |-> Str("object"),
         properties |-> Obj([input |-> Obj([type |-> Str("string"),
             description |-> Str("The string to be converted to uppercase.")])]),
         required |-> Arr(<<Str("input")>>)])

UppercaseTool ==
    Obj([name |-> Str("to-uppercase"),
         description |-> Str("Converts the input string to uppercase."),
         inputSchema |-> InputSchema])

SlowTool ==
    Obj([name |-> Str("to-uppercase-slowly"),
         description |-> Str("Converts the input string to uppercase. (simulates slow processing)"),
         inputSchema |-> InputSchema])

\* streamable/app.py TOOLS
TOOLS == Arr(<<UppercaseTool, SlowTool>>)

ToolResult(text) ==
    Obj([content |-> Arr(<<Obj([type |-> Str("text"), text |-> text])>>),
         isError |-> Bool(FALSE)])

MethodNotFoundAsInvalidParams ==
    Obj([code |-> Num(InvalidParams), message |-> Str("Method not found")])

MethodNotFoundError ==
    Obj([code |-> Num(MethodNotFound), message |-> Str("Method not found")])

UnsupportedToolError ==
    Obj([code |-> Num(InvalidParams), message |-> Str("Unsupported tool name")])

ResultEnvelope(request_id, result) ==
    Obj([jsonrpc |-> Str("2.0"), id |-> request_id, result |-> result])

ErrorEnvelope(request_id, error) ==
    Obj([jsonrpc |-> Str("2.0"), id |-> request_id, error |-> error])

\* ------------------------------------------------ sse/app.py build_response
BuildToolsCall(request_payload, request_id) ==
    LET params == DictGet(request_payload, "params", EmptyObj) IN
    IF ~IsObj(params) THEN Raised
    ELSE IF DictGet(params, "name", Null) = Str("to-uppercase")
    THEN LET arguments == DictGet(params, "arguments", EmptyObj) IN
         IF ~IsObj(arguments) THEN Raised
         ELSE LET upper == perform_to_uppercase(DictGet(arguments, "input", Text(<<>>))) IN
              IF IsRaised(upper) THEN Raised
              ELSE ResultEnvelope(request_id, ToolResult(upper))
    ELSE ErrorEnvelope(request_id, MethodNotFoundError)

build_response(request_payload) ==
    IF ~IsObj(request_payload) THEN Raised
    ELSE LET method == DictGet(request_payload, "method", Null)
             request_id == DictGet(request_payload, "id", Null)
         IN  CASE method = Str("initialize") -> ResultEnvelope(request_id, ServerInfo)
               [] method = Str("tools/list") ->
                      ResultEnvelope(request_id, Obj([tools |-> Arr(<<UppercaseTool>>)]))
               [] method = Str("tools/call") -> BuildToolsCall(request_payload, request_id)
               [] OTHER -> ErrorEnvelope(request_id, MethodNotFoundError)

\* ---------------------------------------------- streamable/app.py dispatch
base_response_both(result, error, request_id) ==
    Obj([jsonrpc |-> Str("2.0"), id |-> request_id, result |-> result, error |-> error])

base_response_null_id(result, error, request_id) ==
    IF error # Null
    THEN Obj([jsonrpc |-> Str("2.0"), id |-> Null, error |-> error])
    ELSE Obj([jsonrpc |-> Str("2.0"), id |-> Null, result |-> result])

\* base_response(result=None, error=None, *, request_id=None)
base_response(result, error, request_id) ==
    IF error # Null
    THEN Obj([jsonrpc |-> Str("2.0"), id |-> request_id, error |-> error])
    ELSE Obj([jsonrpc |-> Str("2.0"), id |-> request_id, result |-> result])

\* What handle_mcp returns: a JSONResponse, a StreamingResponse over
\* slow_uppercase_stream(payload, request_id, input_value), or an exception.
JsonResponse(content) == [json |-> content]
StreamingResponse(payload, request_id, input_value) ==
    [stream |-> [payload |-> payload, request_id |-> request_id,
                 input_value |-> input_value]]
IsJson(r) == DOMAIN r = {"json"}
IsStream(r) == DOMAIN r = {"stream"}

McpToolsCall(payload, request_id) ==
    LET params == DictGet(payload, "params", EmptyObj) IN
    IF ~IsObj(params) THEN Raised
    ELSE LET tool_name == DictGet(params, "name", Null)
             arguments == DictGet(params, "arguments", EmptyObj)
         IN  IF ~IsObj(arguments) THEN Raised
             ELSE LET input_value == PyStr(DictGet(arguments, "input", Text(<<>>))) IN
                  CASE tool_name = Str("to-uppercase") ->
                         JsonResponse(base_response(
                             ToolResult(Text(PyUpper(input_value))), Null, request_id))
                    [] tool_name = Str("to-uppercase-slowly") ->
                         StreamingResponse(payload, request_id, input_value)
                    [] OTHER ->
                         JsonResponse(base_response(Null, UnsupportedToolError, request_id))

handle_mcp(payload) ==
    IF ~IsObj(payload) THEN Raised
    ELSE LET method == DictGet(payload, "method", Null)
             request_id == DictGet(payload, "id", Null)
         IN  CASE method = Str("initialize") ->
                      JsonResponse(base_response(ServerInfo, Null, request_id))
               [] method = Str("tools/list") ->
                      JsonResponse(base_response(Obj([tools |-> TOOLS]), Null, request_id))
               [] method = Str("tools/call") -> McpToolsCall(payload, request_id)
               [] OTHER ->
                      JsonResponse(base_response(Null, MethodNotFoundError, request_id))

\* ------------------------------------------------- slow_uppercase_stream
ProgressTokenNone(payload) == Null

\* progress_token = payload.get("params", {}).get("_meta", {}).get("progressToken")
ProgressToken(payload) ==
    LET params == DictGet(payload, "params", EmptyObj)
        meta == DictGet(params, "_meta", EmptyObj)
    IN  IF ~IsObj(meta) THEN Raised ELSE DictGet(meta, "progressToken", Null)

\* f"Server progress {int(i * 100 / 10)}%"
ProgressMessage(i) == <<"Server progress ", (i * 100) \div ProgressSteps, "%">>

ProgressFrame(i, progress_token) ==
    format_sse("message", json_dumps(
        Obj([jsonrpc |-> Str("2.0"),
             method |-> Str("notifications/progress"),
             params |-> Obj([progress |-> Num(i),
                             total |-> Num(ProgressSteps),
                             progressToken |-> progress_token,
                             message |-> Str(ProgressMessage(i))])])))

FinalFrame(request_id, input_value) ==
    format_sse("message", json_dumps(
        base_response(ToolResult(Text(PyUpper(input_value))), Null, request_id)))

\* The frames slow_uppercase_stream yields, in order, when it is drained: one
\* progress notification for each i of range(1, 11), then the final response.
\* Reading the progress token raises before the first frame when _meta is
\* no object.
slow_uppercase_stream_short(payload, request_id, input_value) ==
    LET progress_token == ProgressToken(payload) IN
    IF IsRaised(progress_token) THEN Raised
    ELSE [i \in 1..ProgressSteps |->
            IF i < ProgressSteps THEN ProgressFrame(i, progress_token)
            ELSE FinalFrame(request_id, input_value)]

slow_uppercase_stream(payload, request_id, input_value) ==
    LET progress_token == ProgressToken(payload) IN
    IF IsRaised(progress_token) THEN Raised
    ELSE [i \in 1..(ProgressSteps + 1) |->
            IF i <= ProgressSteps THEN ProgressFrame(i, progress_token)
            ELSE FinalFrame(request_id, input_value)]

\* ----------------------------------------------------------- request space
Absent == [absent |-> TRUE]
Opt(key, v) == IF v = Absent THEN <<>> ELSE (key :> v)

Alphabet == {"a", "B"}
Strings == UNION {[1..n -> Alphabet] : n \in 0..MaxStrLen}

Inputs == {Absent, Null, Num(7)} \cup {Text(cs) : cs \in Strings}
ArgumentsSet == {Absent, Null, Arr(<<>>)} \cup {Obj(Opt("input", i)) : i \in Inputs}
ToolNames == {Absent, Null, Str("to-uppercase"), Str("to-uppercase-slowly"), Str("bogus")}
Metas == {Absent, Null, EmptyObj, Obj("progressToken" :> Num(5)),
          Obj("progressToken" :> Str("tok"))}
ParamsSet ==
    {Absent, Null, Arr(<<>>)} \cup
    {Obj(Opt("name", n) @@ Opt("arguments", a) @@ Opt("_meta", m)) :
        n \in ToolNames, a \in ArgumentsSet, m \in Metas}
Methods == {Absent, Null, Str("initialize"), Str("tools/list"), Str("tools/call"),
            Str("ping")}
RequestIds == {Absent, Null, Num(1), Str("req-a")}

\* Every request body: a JSON object with optional method, id and params, or
\* a JSON value that is no object.
Payloads ==
    {Null, Arr(<<>>)} \cup
    {Obj(Opt("method", m) @@ Opt("id", i) @@ Opt("params", p)) :
        m \in Methods, i \in RequestIds, p \in ParamsSet}

CallPayload(id, name, arguments, meta) ==
    Obj(("method" :> Str("tools/call")) @@ Opt("id", id) @@
        ("params" :> Obj(Opt("name", name) @@ Opt("arguments", arguments)
                         @@ Opt("_meta", meta))))

\* The bodies POSTed to /message in the transport specification.
SsePayloads ==
    {CallPayload(Num(1), Str("to-uppercase"), Obj("input" :> Text(<<"a">>)), Absent),
     Obj("method" :> Str("ping")),
     Arr(<<>>)}

\* The bodies POSTed to /mcp in the transport specification.
McpPayloads ==
    {CallPayload(Num(1), Str("to-uppercase-slowly"), Obj("input" :> Text(<<"a">>)),
                 Obj("progressToken" :> Num(5))),
     CallPayload(Absent, Str("to-uppercase-slowly"), Obj("input" :> Num(7)), Absent),
     CallPayload(Str("req-a"), Str("to-uppercase-slowly"), Absent, Null),
     CallPayload(Num(1), Str("to-uppercase"), Obj("input" :> Text(<<"a">>)), Absent),
     CallPayload(Null, Str("bogus"), Absent, Absent),
     Obj("method" :> Str("tools/list")),
     Obj(("method" :> Str("ping")) @@ ("id" :> Num(3))),
     Null}

\* ------------------------------------------------------------------- state
Streams == 1..NumStreams
Posts == 1..NumPosts
Reqs == 1..NumReqs

\* Session ids (uuid4().hex): the ids 1..NumStreams are issued to the GET
\* streams, NumStreams + 1 is an id no stream is ever given.
SessionIds == 1..(NumStreams + 1)
NoSession == 0                       \* request.query_params.get -> None
SidParams == {NoSession} \cup SessionIds
NoQueue == 0
NoHolder == 0                        \* asyncio.Lock(): unlocked
NoPayload == [none |-> TRUE]

VARIABLES
    sessions,     \* SessionRegistry._sessions: session id -> queue (a stream's)
    chan,         \* the asyncio.Queue made by each stream's create: its items
    spc,          \* each GET handler: idle, pending, streaming, closed
    sid,          \* each GET handler's session_id
    delivered,    \* the frames each stream's generator has yielded, in order
    enq,          \* history: every put on each queue, [frame, by], in order
    ppc,          \* each POST /message handler: idle, parsing, done
    psid,         \* its sessionid query parameter
    pqueue,       \* the queue its lookup returned
    ppayload,     \* its request body
    pstatus,      \* its HTTP status (0: none yet)
    lock,         \* SessionRegistry._lock: the task holding it, or NoHolder
    rpc,          \* each POST /mcp: idle, started, sleeping, done, failed, cancelled
    rpayload,     \* its request body
    rresp,        \* what handle_mcp returned
    rbody,        \* the chunks written to its streamed body
    ri,           \* slow_uppercase_stream's loop variable i
    dreq,         \* dispatch: the request under test
    dsse,         \* dispatch: build_response(dreq)
    dmcp,         \* dispatch: handle_mcp(dreq)
    dfinal,       \* dispatch: the terminal frame of dmcp's stream
    regop         \* registry: the last call made on SessionRegistry directly

sseVars == <<sessions, chan, spc, sid, delivered, enq, ppc, psid, pqueue, ppayload,
            pstatus, lock>>
mcpVars == <<rpc, rpayload, rresp, rbody, ri>>
dispatchVars == <<dreq, dsse, dmcp, dfinal>>
registryVars == <<regop>>
vars == <<sessions, chan, spc, sid, delivered, enq, ppc, psid, pqueue, ppayload,
          pstatus, lock, rpc, rpayload, rresp, rbody, ri, dreq, dsse, dmcp, dfinal,
          regop>>

SseInit ==
    /\ sessions = <<>>
    /\ chan = [s \in Streams |-> <<>>]
    /\ spc = [s \in Streams |-> "idle"]
    /\ sid = [s \in Streams |-> NoSession]
    /\ delivered = [s \in Streams |-> <<>>]
    /\ enq = [s \in Streams |-> <<>>]
    /\ ppc = [p \in Posts |-> "idle"]
    /\ psid = [p \in Posts |-> NoSession]
    /\ pqueue = [p \in Posts |-> NoQueue]
    /\ ppayload = [p \in Posts |-> NoPayload]
    /\ pstatus = [p \in Posts |-> 0]
    /\ lock = NoHolder

McpInit ==
    /\ rpc = [r \in Reqs |-> "idle"]
    /\ rpayload = [r \in Reqs |-> NoPayload]
    /\ rresp = [r \in Reqs |-> NoPayload]
    /\ rbody = [r \in Reqs |-> <<>>]
    /\ ri = [r \in Reqs |-> 0]

DispatchInit ==
    /\ dsse = NoPayload
    /\ dmcp = NoPayload
    /\ dfinal = NoPayload

RegistryInit == regop = [op |-> "none"]

\* --------------------------------------------------------- SessionRegistry
\* The registry's asyncio.Lock is taken around each map access and nothing
\* awaits inside it, so on the single event loop each operation is one step.
RegistryCreate(reg, session_id, queue) ==
    [k \in DOMAIN reg \cup {session_id} |-> IF k = session_id THEN queue ELSE reg[k]]

\* A remove that clears the whole map.
RegistryPopAll(reg, session_id) == <<>>

\* A remove that, asked for an absent id, evicts some other entry.
RegistryPopAny(reg, session_id) ==
    LET victim == IF session_id \in DOMAIN reg \/ DOMAIN reg = {} THEN session_id
                  ELSE CHOOSE k \in DOMAIN reg : TRUE
    IN  [k \in DOMAIN reg \ {victim} |-> reg[k]]

\* self._sessions.pop(session_id, None): the map afterwards, and the value
\* returned (NoQueue stands for None).
RegistryPop(reg, session_id) == [k \in DOMAIN reg \ {session_id} |-> reg[k]]

RegistryPopResult(reg, session_id) ==
    IF session_id \in DOMAIN reg THEN reg[session_id] ELSE NoQueue

\* async with self._lock: the lock is taken for the map access alone and
\* released when the block is left, before the method returns to its caller.
AfterWithLockHeld(task) == task
AfterWithLock(task) == NoHolder

\* The asyncio tasks: one for each GET /sse and each POST /message.
StreamTask(s) == s
PostTask(p) == NumStreams + p

RegistryGetAny(reg, session_id) ==
    IF DOMAIN reg = {} THEN NoQueue ELSE reg[CHOOSE k \in DOMAIN reg : TRUE]

\* NoQueue stands for the KeyError.
RegistryGet(reg, session_id) ==
    IF session_id \in DOMAIN reg THEN reg[session_id] ELSE NoQueue

\* A counter of the sessions still open instead of a random id.
Uuid4Reused ==
    Cardinality({s \in Streams : sid[s] # NoSession /\ spc[s] # "closed"}) + 1

\* uuid.uuid4().hex: an id no earlier stream was given.
Uuid4 == Cardinality({s \in Streams : sid[s] # NoSession}) + 1

\* ------------------------------------------------------------ asyncio.Queue
QueuePut(q, item) == Append(q, item)
QueueFrontLifo(q) == q[Len(q)]
QueueFront(q) == Head(q)
QueueRest(q) == Tail(q)

\* A put on stream s's queue, with the history of who put it (0: the GET
\* handler itself, p: POST handler p).
PutOn(s, frame, by) ==
    /\ chan' = [chan EXCEPT ![s] = QueuePut(@, frame)]
    /\ enq' = [enq EXCEPT ![s] = Append(@, [frame |-> frame, by |-> by])]

\* endpoint_url = str(request.url_for("post_message")) + f"?sessionid={session_id}":
\* the route named post_message is registered, so url_for does not raise.
EndpointUrl(session_id) == <<"http://host/message", "?sessionid=", session_id>>

\* ------------------------------------------------------ GET /sse: sse_stream
Live(s) == spc[s] \in {"pending", "streaming"}

\* data = await queue.get(); yield data
YieldFrom(s, q) ==
    /\ delivered' = [delivered EXCEPT ![s] = Append(@, QueueFront(q))]
    /\ chan' = [chan EXCEPT ![s] = QueueRest(q)]

\* session_id = uuid.uuid4().hex; queue = await sessions.create(session_id);
\* the StreamingResponse is returned with its generator not yet started.
\* Connections are numbered in the order they arrive.
SseOpen(s) ==
    /\ spc[s] = "idle"
    /\ \A t \in Streams : t < s => spc[t] # "idle"
    /\ sid' = [sid EXCEPT ![s] = Uuid4]
    /\ sessions' = RegistryCreate(sessions, Uuid4, s)
    /\ spc' = [spc EXCEPT ![s] = "pending"]
    /\ lock = NoHolder
    /\ lock' = AfterWithLock(StreamTask(s))
    /\ UNCHANGED <<chan, delivered, enq, ppc, psid, pqueue, ppayload, pstatus>>
    /\ UNCHANGED <<mcpVars, dispatchVars, registryVars>>

\* The response starts iterating event_generator: it puts the endpoint frame
\* on its queue (a put on an unbounded queue does not suspend), enters the
\* loop, gets the head of the queue (which is not empty) and yields it.
GenStart(s) ==
    /\ spc[s] = "pending"
    /\ LET frame == format_sse("endpoint", EndpointUrl(sid[s])) IN
       /\ enq' = [enq EXCEPT ![s] = Append(@, [frame |-> frame, by |-> 0])]
       /\ YieldFrom(s, QueuePut(chan[s], frame))
    /\ spc' = [spc EXCEPT ![s] = "streaming"]
    /\ UNCHANGED <<sessions, sid, ppc, psid, pqueue, ppayload, pstatus, lock>>
    /\ UNCHANGED <<mcpVars, dispatchVars, registryVars>>

\* A turn of the loop that takes a frame off the queue and yields nothing.
GenYieldDrop(s) ==
    /\ spc[s] = "streaming"
    /\ chan[s] # <<>>
    /\ chan' = [chan EXCEPT ![s] = QueueRest(chan[s])]
    /\ UNCHANGED <<sessions, spc, sid, delivered, enq, ppc, psid, pqueue, ppayload,
                   pstatus, lock>>
    /\ UNCHANGED <<mcpVars, dispatchVars, registryVars>>

\* One more turn of the loop: data = await queue.get(); yield data. The get
\* returns at once when the queue holds a frame and otherwise suspends until
\* a put wakes it: either way the generator moves when its queue is not empty.
GenYield(s) ==
    /\ spc[s] = "streaming"
    /\ chan[s] # <<>>
    /\ YieldFrom(s, chan[s])
    /\ UNCHANGED <<sessions, spc, sid, enq, ppc, psid, pqueue, ppayload, pstatus, lock>>
    /\ UNCHANGED <<mcpVars, dispatchVars, registryVars>>

\* The client disconnects and the handler's task is cancelled. A generator
\* that has started (suspended in queue.get() or at its yield) runs its
\* finally block: await sessions.pop(session_id). A generator that was never
\* started has no frame to unwind: nothing runs.
Disconnect(s) ==
    /\ Live(s)
    /\ IF spc[s] = "pending"
       THEN UNCHANGED <<sessions, lock>>
       ELSE /\ lock = NoHolder
            /\ sessions' = RegistryPop(sessions, sid[s])
            /\ lock' = AfterWithLock(StreamTask(s))
    /\ spc' = [spc EXCEPT ![s] = "closed"]
    /\ UNCHANGED <<chan, sid, delivered, enq, ppc, psid, pqueue, ppayload, pstatus>>
    /\ UNCHANGED <<mcpVars, dispatchVars, registryVars>>

\* --------------------------------------------- POST /message: post_message
\* Up to the await of the request body: the sessionid check and the lookup.
\* Requests are numbered in the order they arrive.
PostMessage(p) ==
    /\ ppc[p] = "idle"
    /\ \A o \in Posts : o < p => ppc[o] # "idle"
    /\ \E session_id \in SidParams :
          LET queue == RegistryGet(sessions, session_id) IN
          /\ psid' = [psid EXCEPT ![p] = session_id]
          /\ IF session_id = NoSession
             THEN /\ pstatus' = [pstatus EXCEPT ![p] = 400]
                  /\ ppc' = [ppc EXCEPT ![p] = "done"]
                  /\ UNCHANGED <<pqueue, lock>>
             ELSE /\ lock = NoHolder
                  /\ lock' = AfterWithLock(PostTask(p))
                  /\ IF queue = NoQueue
                     THEN /\ pstatus' = [pstatus EXCEPT ![p] = 404]
                          /\ ppc' = [ppc EXCEPT ![p] = "done"]
                          /\ UNCHANGED pqueue
                     ELSE /\ pqueue' = [pqueue EXCEPT ![p] = queue]
                          /\ ppc' = [ppc EXCEPT ![p] = "parsing"]
                          /\ UNCHANGED pstatus
    /\ UNCHANGED <<sessions, chan, spc, sid, delivered, enq, ppayload>>
    /\ UNCHANGED <<mcpVars, dispatchVars, registryVars>>

\* payload = await request.json(); response = build_response(payload);
\* await queue.put(format_sse("message", json.dumps(response))); 202.
\* An exception out of build_response ends the request with a 500.
PostParse(p) ==
    /\ ppc[p] = "parsing"
    /\ \E payload \in SsePayloads :
          LET response == build_response(payload) IN
          /\ ppayload' = [ppayload EXCEPT ![p] = payload]
          /\ IF IsRaised(response)
             THEN /\ pstatus' = [pstatus EXCEPT ![p] = 500]
                  /\ UNCHANGED <<chan, enq>>
             ELSE /\ PutOn(pqueue[p], format_sse("message", json_dumps(response)), p)
                  /\ pstatus' = [pstatus EXCEPT ![p] = 202]
    /\ ppc' = [ppc EXCEPT ![p] = "done"]
    /\ UNCHANGED <<sessions, spc, sid, delivered, psid, pqueue, lock>>
    /\ UNCHANGED <<mcpVars, dispatchVars, registryVars>>

NextSse ==
    \/ \E s \in Streams : SseOpen(s)
    \/ \E s \in Streams : GenStart(s)
    \/ \E s \in Streams : GenYield(s)
    \/ \E s \in Streams : Disconnect(s)
    \/ \E p \in Posts : PostMessage(p)
    \/ \E p \in Posts : PostParse(p)

InitSse == SseInit /\ McpInit /\ DispatchInit /\ RegistryInit /\ dreq = NoPayload

\* The session-registry transport.
SpecSse == InitSse /\ [][NextSse]_vars

\* The event loop runs every task that is ready: a response that has been
\* returned gets its generator started, and a generator whose queue holds a
\* frame gets its turn. Clients owe nothing: they need not POST or disconnect.
FairSse == \A s \in Streams : WF_vars(GenStart(s)) /\ WF_vars(GenYield(s))
SpecSseFair == SpecSse /\ FairSse

\* ------------------------------------------- SessionRegistry on its own
\* The three methods called directly, with any id and in any order; regop
\* records the call, the map before it and what it returned.
SessionRegistry_create(session_id, queue) ==
    /\ lock = NoHolder
    /\ sessions' = RegistryCreate(sessions, session_id, queue)
    /\ lock' = AfterWithLock(StreamTask(queue))
    /\ regop' = [op |-> "create", id |-> session_id, before |-> sessions,
                 result |-> queue]
    /\ UNCHANGED <<chan, spc, sid, delivered, enq, ppc, psid, pqueue, ppayload, pstatus>>
    /\ UNCHANGED <<mcpVars, dispatchVars>>

SessionRegistry_pop(session_id) ==
    /\ lock = NoHolder
    /\ sessions' = RegistryPop(sessions, session_id)
    /\ lock' = AfterWithLock(StreamTask(1))
    /\ regop' = [op |-> "pop", id |-> session_id, before |-> sessions,
                 result |-> RegistryPopResult(sessions, session_id)]
    /\ UNCHANGED <<chan, spc, sid, delivered, enq, ppc, psid, pqueue, ppayload, pstatus>>
    /\ UNCHANGED <<mcpVars, dispatchVars>>

SessionRegistry_get(session_id) ==
    /\ lock = NoHolder
    /\ lock' = AfterWithLock(PostTask(1))
    /\ regop' = [op |-> "get", id |-> session_id, before |-> sessions,
                 result |-> RegistryGet(sessions, session_id)]
    /\ UNCHANGED <<sessions, chan, spc, sid, delivered, enq, ppc, psid, pqueue, ppayload,
                   pstatus>>
    /\ UNCHANGED <<mcpVars, dispatchVars>>

NextRegistry ==
    \/ \E session_id \in SessionIds, queue \in Streams :
          SessionRegistry_create(session_id, queue)
    \/ \E session_id \in SessionIds : SessionRegistry_pop(session_id)
    \/ \E session_id \in SessionIds : SessionRegistry_get(session_id)

InitRegistry == SseInit /\ McpInit /\ DispatchInit /\ RegistryInit /\ dreq = NoPayload

\* The registry driven directly.
SpecRegistry == InitRegistry /\ [][NextRegistry]_vars

\* ------------------------------------------------- POST /mcp: handle_mcp
\* The generator behind request r's StreamingResponse.
StreamOf(r) ==
    slow_uppercase_stream(rresp[r].stream.payload, rresp[r].stream.request_id,
                          rresp[r].stream.input_value)

\* payload = await request.json() and the dispatch, up to the returned
\* response. Requests are numbered in the order they arrive.
McpPost(r) ==
    /\ rpc[r] = "idle"
    /\ \A o \in Reqs : o < r => rpc[o] # "idle"
    /\ \E payload \in McpPayloads :
          LET response == handle_mcp(payload) IN
          /\ rpayload' = [rpayload EXCEPT ![r] = payload]
          /\ rresp' = [rresp EXCEPT ![r] = response]
          /\ rpc' = [rpc EXCEPT ![r] =
                        IF IsRaised(response) THEN "failed"
                        ELSE IF IsStream(response) THEN "started" ELSE "done"]
    /\ UNCHANGED <<rbody, ri>>
    /\ UNCHANGED <<sseVars, dispatchVars, registryVars>>

\* The response starts iterating the generator: it reads the progress token
\* (an exception ends the stream with no frame) and yields the frame of i = 1,
\* then sleeps.
StreamStart(r) ==
    /\ rpc[r] = "started"
    /\ IF IsRaised(StreamOf(r))
       THEN /\ rpc' = [rpc EXCEPT ![r] = "failed"]
            /\ UNCHANGED <<rbody, ri>>
       ELSE /\ rpc' = [rpc EXCEPT ![r] = "sleeping"]
            /\ ri' = [ri EXCEPT ![r] = 1]
            /\ rbody' = [rbody EXCEPT ![r] = Append(@, StreamOf(r)[1])]
    /\ UNCHANGED <<rpayload, rresp>>
    /\ UNCHANGED <<sseVars, dispatchVars, registryVars>>

\* asyncio.sleep(0.3) returns: the next frame is yielded; after the last
\* frame the generator returns and the body ends.
StreamStep(r) ==
    /\ rpc[r] = "sleeping"
    /\ ri' = [ri EXCEPT ![r] = @ + 1]
    /\ rbody' = [rbody EXCEPT ![r] = Append(@, StreamOf(r)[ri[r] + 1])]
    /\ rpc' = [rpc EXCEPT ![r] = IF ri[r] + 1 = Len(StreamOf(r)) THEN "done" ELSE @]
    /\ UNCHANGED <<rpayload, rresp>>
    /\ UNCHANGED <<sseVars, dispatchVars, registryVars>>

\* The client drops the connection while the body is being streamed: the
\* generator is cancelled and yields nothing more.
McpDisconnect(r) ==
    /\ rpc[r] \in {"started", "sleeping"}
    /\ rpc' = [rpc EXCEPT ![r] = "cancelled"]
    /\ UNCHANGED <<rpayload, rresp, rbody, ri>>
    /\ UNCHANGED <<sseVars, dispatchVars, registryVars>>

NextMcp ==
    \/ \E r \in Reqs : McpPost(r)
    \/ \E r \in Reqs : StreamStart(r)
    \/ \E r \in Reqs : StreamStep(r)
    \/ \E r \in Reqs : McpDisconnect(r)

InitMcp == SseInit /\ McpInit /\ DispatchInit /\ RegistryInit /\ dreq = NoPayload

\* The streamable transport.
SpecMcp == InitMcp /\ [][NextMcp]_vars

\* ------------------------------------------------------------- dispatchers
\* The two dispatchers as functions of the request body, over every body of
\* Payloads: what POST /message computes and frames, what POST /mcp returns,
\* and the last frame of the stream it returns, once drained.
DispatchSse ==
    /\ dsse = NoPayload
    /\ dsse' = build_response(dreq)
    /\ UNCHANGED <<dreq, dmcp, dfinal>>
    /\ UNCHANGED <<sseVars, mcpVars, registryVars>>

DispatchMcp ==
    /\ dmcp = NoPayload
    /\ dmcp' = handle_mcp(dreq)
    /\ UNCHANGED <<dreq, dsse, dfinal>>
    /\ UNCHANGED <<sseVars, mcpVars, registryVars>>

DispatchDrain ==
    /\ dmcp # NoPayload
    /\ IsStream(dmcp)
    /\ dfinal = NoPayload
    /\ LET frames == slow_uppercase_stream(dmcp.stream.payload, dmcp.stream.request_id,
                                           dmcp.stream.input_value)
       IN  dfinal' = IF IsRaised(frames) THEN Raised ELSE frames[Len(frames)]
    /\ UNCHANGED <<dreq, dsse, dmcp>>
    /\ UNCHANGED <<sseVars, mcpVars, registryVars>>

\* ------------------------------------------------ one client per transport
\* One GET /sse with one POST /message beside one POST /mcp, served by the
\* two applications side by side.
NextTransports ==
    \/ SseOpen(1)
    \/ GenStart(1)
    \/ GenYield(1)
    \/ Disconnect(1)
    \/ PostMessage(1)
    \/ PostParse(1)
    \/ McpPost(1)
    \/ StreamStart(1)
    \/ StreamStep(1)
    \/ McpDisconnect(1)

InitTransports == SseInit /\ McpInit /\ DispatchInit /\ RegistryInit /\ dreq = NoPayload

SpecTransports == InitTransports /\ [][NextTransports]_vars

NextDispatch == DispatchSse \/ DispatchMcp \/ DispatchDrain

InitDispatch == SseInit /\ McpInit /\ DispatchInit /\ RegistryInit /\ dreq \in Payloads

SpecDispatch == InitDispatch /\ [][NextDispatch]_vars

\* ================================================================== claims
FramesOf(log) == [i \in 1..Len(log) |-> log[i].frame]
IsPrefix(a, b) == Len(a) <= Len(b) /\ a = SubSeq(b, 1, Len(a))
EndpointFrame(session_id) == format_sse("endpoint", EndpointUrl(session_id))

\* C1: per-session FIFO. The frames a stream has yielded to its client are,
\* in order and without duplication, the first frames put on its queue; and
\* while the stream is still draining, the frames put are exactly the frames
\* yielded followed by the frames still queued (none dropped).
C1_PerSessionFifo ==
    \A s \in Streams :
        /\ IsPrefix(delivered[s], FramesOf(enq[s]))
        /\ Live(s) => FramesOf(enq[s]) = delivered[s] \o chan[s]

\* A stream that has yielded its endpoint frame and two different message
\* frames put by two POSTs.
C1_Witness ==
    \E s \in Streams :
        /\ Len(delivered[s]) = 3
        /\ delivered[s][2] # delivered[s][3]
        /\ delivered[s][1] = EndpointFrame(sid[s])
        /\ \E i, j \in 1..3 : enq[s][i].by = 1 /\ enq[s][j].by = 2

\* C2: no cross-delivery. Every frame ever put on the queue of session A, and
\* so every frame queued on it or yielded from it, was put by A's own GET
\* handler (its endpoint frame) or by a POST whose sessionid was A's id.
C2_NoCrossDelivery ==
    \A s \in Streams :
        /\ \A i \in 1..Len(enq[s]) :
              IF enq[s][i].by = 0
              THEN enq[s][i].frame = EndpointFrame(sid[s])
              ELSE psid[enq[s][i].by] = sid[s]
        /\ \A i \in 1..Len(delivered[s]) :
              \E j \in 1..Len(enq[s]) : enq[s][j].frame = delivered[s][i]
        /\ \A i \in 1..Len(chan[s]) :
              \E j \in 1..Len(enq[s]) : enq[s][j].frame = chan[s][i]

\* Two POSTs accepted for two different sessions, the frame of each put on
\* the queue of its own session.
C2_Witness ==
    \E s, t \in Streams :
        /\ s # t
        /\ psid[1] = sid[s] /\ psid[2] = sid[t]
        /\ pstatus[1] = 202 /\ pstatus[2] = 202
        /\ \E i \in 1..Len(enq[s]) : enq[s][i].by = 1
        /\ \E i \in 1..Len(enq[t]) : enq[t][i].by = 2

\* C3: for every issued session id, lookup succeeds while the owning stream
\* handler has not exited and fails (KeyError) once it has.
C3_LookupUntilClosed ==
    \A s \in Streams :
        /\ Live(s) => RegistryGet(sessions, sid[s]) = s
        /\ spc[s] = "closed" => RegistryGet(sessions, sid[s]) = NoQueue

NeverCreated(session_id) == \A s \in Streams : sid[s] # session_id
AlreadyClosed(session_id) == \E s \in Streams : sid[s] = session_id /\ spc[s] = "closed"

\* C4: a POST without sessionid yields 400; a POST to an id never created or
\* already closed yields 404; and a POST answered 400 or 404 leaves every
\* queue and the registry map as they were.
C4_RejectedPostChangesNothing ==
    [][\A p \in Posts :
        (ppc[p] = "idle" /\ ppc'[p] # "idle") =>
            /\ psid'[p] = NoSession => pstatus'[p] = 400
            /\ (psid'[p] # NoSession /\ (NeverCreated(psid'[p]) \/ AlreadyClosed(psid'[p])))
                  => pstatus'[p] = 404
            /\ pstatus'[p] \in {400, 404} =>
                  (sessions' = sessions /\ chan' = chan /\ enq' = enq)]_vars

\* C5: the first frame a stream yields is the endpoint event whose data
\* carries the stream's own session id as the sessionid query parameter.
C5_EndpointFirst ==
    \A s \in Streams :
        delivered[s] # <<>> =>
            /\ EventOf(delivered[s][1]) = "endpoint"
            /\ DataOf(delivered[s][1])[2] = "?sessionid="
            /\ DataOf(delivered[s][1])[3] = sid[s]

\* C10: cancelling a GET connection, in whatever phase of its handler,
\* removes its session: the step that ends the handler leaves the session id
\* absent from the registry.
C10_DisconnectRemovesSession ==
    [][\A s \in Streams :
        (Live(s) /\ spc'[s] = "closed") => sid[s] \notin DOMAIN sessions']_vars

\* The fields of the JSON-RPC message a frame carries.
MessageOf(frame) == JsonOf(DataOf(frame)).obj
\* The arguments.input of a tools/call request, "" when it is absent.
InputOf(payload) ==
    DictGet(DictGet(DictGet(payload, "params", EmptyObj), "arguments", EmptyObj),
            "input", Text(<<>>))
IsProgressFrame(frame, i) ==
    /\ EventOf(frame) = "message"
    /\ DOMAIN MessageOf(frame) = {"jsonrpc", "method", "params"}
    /\ MessageOf(frame).method = Str("notifications/progress")
    /\ MessageOf(frame).params.obj.progress = Num(i)
    /\ MessageOf(frame).params.obj.total = Num(10)
IsTerminalFrame(frame, payload) ==
    /\ EventOf(frame) = "message"
    /\ DOMAIN MessageOf(frame) = {"jsonrpc", "id", "result"}
    /\ MessageOf(frame).result.obj.content.arr[1].obj.text
           = Text(PyUpper(PyStr(InputOf(payload))))
    /\ InputOf(payload) = Text(<<"a">>) =>
           MessageOf(frame).result.obj.content.arr[1].obj.text = Text(<<"A">>)

IdOfRequest(payload) == IF "id" \in DOMAIN payload.obj THEN payload.obj.id ELSE Null
IsEnvelope(v) == v # NoPayload /\ IsObj(v)
IsFrame(v) == v # NoPayload /\ ~IsRaised(v)

\* C7: every JSON-RPC response carries the id of its request (null when the
\* request has no id or a null id): the response build_response computes,
\* the response handle_mcp returns, and the terminal frame of a progressive
\* call.
C7_IdRoundTrip ==
    /\ IsEnvelope(dsse) => dsse.obj.id = IdOfRequest(dreq)
    /\ (dmcp # NoPayload /\ IsJson(dmcp)) => dmcp.json.obj.id = IdOfRequest(dreq)
    /\ IsFrame(dfinal) => MessageOf(dfinal).id = IdOfRequest(dreq)

\* A progressive call with id 1, answered by both dispatchers and drained.
C7_Witness ==
    /\ IsObj(dreq) /\ IdOfRequest(dreq) = Num(1)
    /\ IsEnvelope(dsse) /\ dsse.obj.id = Num(1)
    /\ IsFrame(dfinal) /\ MessageOf(dfinal).id = Num(1)

ExactlyOneOfResultError(fields) == ("result" \in DOMAIN fields) # ("error" \in DOMAIN fields)

\* C8: every response envelope has exactly one of the keys result and error.
C8_ResultXorError ==
    /\ IsEnvelope(dsse) => ExactlyOneOfResultError(dsse.obj)
    /\ (dmcp # NoPayload /\ IsJson(dmcp)) => ExactlyOneOfResultError(dmcp.json.obj)
    /\ IsFrame(dfinal) => ExactlyOneOfResultError(MessageOf(dfinal))

\* An unknown method: both dispatchers answer with an error and no result.
C8_Witness ==
    /\ IsObj(dreq) /\ DictGet(dreq, "method", Null) = Str("ping")
    /\ IsEnvelope(dsse) /\ "error" \in DOMAIN dsse.obj /\ "result" \notin DOMAIN dsse.obj
    /\ dmcp # NoPayload /\ IsJson(dmcp)
    /\ "error" \in DOMAIN dmcp.json.obj /\ "result" \notin DOMAIN dmcp.json.obj

RegisteredToolNames == {Str("to-uppercase"), Str("to-uppercase-slowly")}

\* C9: on the streamable transport a tools/call whose tool name is none of
\* the registered tools is answered with the JSON-RPC error -32602
\* "Unsupported tool name" as a normal response: no stream, no exception.
C9_UnknownToolIsInvalidParams ==
    (/\ IsObj(dreq)
     /\ DictGet(dreq, "method", Null) = Str("tools/call")
     /\ IsObj(DictGet(dreq, "params", EmptyObj))
     /\ DictGet(DictGet(dreq, "params", EmptyObj), "name", Null) \notin RegisteredToolNames
     /\ dmcp # NoPayload)
    => /\ IsJson(dmcp)
       /\ DOMAIN dmcp.json.obj = {"jsonrpc", "id", "error"}
       /\ dmcp.json.obj.error.obj.code = Num(-32602)
       /\ dmcp.json.obj.error.obj.message = Str("Unsupported tool name")

\* The puts POST handler p has made on stream s's queue.
PutsBy(p, s) == {i \in 1..Len(enq[s]) : enq[s][i].by = p}

\* C11: every POST /message that found its session is answered 202 and has
\* put exactly one frame, a message event carrying the JSON-RPC response to
\* its request, on the queue of the session its sessionid names, and on no
\* other queue.
C11_AcceptedPostEnqueuesOne ==
    \A p \in Posts :
        (ppc[p] = "done" /\ pqueue[p] # NoQueue) =>
            /\ pstatus[p] = 202
            /\ sid[pqueue[p]] = psid[p]
            /\ Cardinality(PutsBy(p, pqueue[p])) = 1
            /\ \A i \in PutsBy(p, pqueue[p]) :
                  enq[pqueue[p]][i].frame
                      = format_sse("message", json_dumps(build_response(ppayload[p])))
            /\ \A s \in Streams \ {pqueue[p]} : PutsBy(p, s) = {}

Issued(session_id) == \E s \in Streams : sid[s] = session_id

\* C12: a session id identifies at most one channel: no id is issued to two
\* streams, every registered id is bound to the queue of the one stream it
\* was issued to, a binding is never replaced by another queue, and an id
\* that has been removed is never registered again.
C12_SessionIdNeverReused ==
    /\ [](\A s, t \in Streams :
            (s # t /\ sid[s] # NoSession) => sid[s] # sid[t])
    /\ [](\A id \in DOMAIN sessions : sid[sessions[id]] = id)
    /\ [][\A id \in SessionIds :
            /\ (id \in DOMAIN sessions /\ id \in DOMAIN sessions')
                  => sessions'[id] = sessions[id]
            /\ (Issued(id) /\ id \notin DOMAIN sessions) => id \notin DOMAIN sessions']_vars

\* One session has been removed and a later stream has been given another
\* id, registered while the removed id stays absent.
C12_Witness ==
    \E s, t \in Streams :
        /\ s < t
        /\ spc[s] = "closed" /\ sid[s] \notin DOMAIN sessions
        /\ spc[t] = "streaming" /\ sid[t] \in DOMAIN sessions /\ sessions[sid[t]] = t

\* C13: SessionRegistry.pop is idempotent: a pop of an absent id returns no
\* queue and leaves the map as it was, a second pop of the same id changes
\* nothing more, and from a pop of an id until that id is created again every
\* get of it reports that the id is unknown.
C13_PopIdempotent ==
    /\ [](regop.op = "pop" =>
            /\ regop.id \notin DOMAIN sessions
            /\ RegistryGet(sessions, regop.id) = NoQueue
            /\ RegistryPop(sessions, regop.id) = sessions
            /\ RegistryPopResult(sessions, regop.id) = NoQueue
            /\ \A k \in SessionIds \ {regop.id} :
                  RegistryGet(sessions, k) = RegistryGet(regop.before, k)
            /\ regop.id \notin DOMAIN regop.before =>
                  (regop.result = NoQueue /\ sessions = regop.before))
    /\ [][\A id \in SessionIds :
            (id \notin DOMAIN sessions /\ ~(regop'.op = "create" /\ regop'.id = id)) =>
                /\ id \notin DOMAIN sessions'
                /\ (regop'.op = "get" /\ regop'.id = id) => regop'.result = NoQueue
                /\ (regop'.op = "pop" /\ regop'.id = id) =>
                      (regop'.result = NoQueue /\ sessions' = sessions)]_vars

\* An id has just been popped a second time from a registry that still holds
\* another session.
C13_Witness ==
    /\ regop.op = "pop"
    /\ regop.id \notin DOMAIN regop.before
    /\ regop.result = NoQueue
    /\ sessions = regop.before
    /\ sessions # <<>>

\* Stream s's session was registered and has been removed from the registry.
Removed(s) == spc[s] = "closed" /\ sid[s] \notin DOMAIN sessions

\* C14 as stated: once a session has been removed from the registry, no POST
\* handler puts a frame on that session's queue, not even a POST that looked
\* the session up before the removal.
C14_NoPutAfterRemoval ==
    [][\A s \in Streams : Removed(s) => enq'[s] = enq[s]]_vars

\* C14 amended: once a session has been removed, a POST that looks its id up
\* is answered 404 and puts nothing on any queue, nothing more is delivered
\* from the session's queue, and the only puts left on that queue are those
\* of POST handlers that had looked the session up before it was removed and
\* were still reading their request body.
C14_NoLookupAfterRemoval ==
    [][\A s \in Streams : Removed(s) =>
          /\ delivered'[s] = delivered[s]
          /\ \A p \in Posts :
                (ppc[p] = "idle" /\ ppc'[p] # "idle" /\ psid'[p] = sid[s]) =>
                    /\ pstatus'[p] = 404
                    /\ ppc'[p] = "done"
                    /\ pqueue'[p] = NoQueue
                    /\ enq' = enq
          /\ enq'[s] # enq[s] =>
                \E p \in Posts :
                    /\ ppc[p] = "parsing" /\ pqueue[p] = s /\ ppc'[p] = "done"
                    /\ enq'[s] = Append(enq[s], [frame |-> chan'[s][Len(chan'[s])],
                                                  by |-> p])]_vars

\* A session has been removed, one POST naming it was answered 404, and the
\* frame of another POST that had looked it up in time sits undelivered on
\* its queue.
C14_Witness ==
    \E s \in Streams, p, o \in Posts :
        /\ Removed(s)
        /\ psid[p] = sid[s] /\ ppc[p] = "done" /\ pstatus[p] = 404
        /\ pqueue[o] = s /\ pstatus[o] = 202
        /\ chan[s] # <<>>

\* Stream s's generator is suspended in queue.get() on an empty queue.
BlockedOnGet(s) == spc[s] = "streaming" /\ chan[s] = <<>>

\* C15: the registry lock is never held across a suspension: between steps
\* no task holds it, and while a stream is blocked on its empty queue the
\* next GET can still create its session, any other open stream can still
\* remove its own, and the next POST can still look a session up.
C15_LockNotHeldWhileSuspended ==
    /\ lock = NoHolder
    /\ \A s \in Streams : BlockedOnGet(s) =>
          /\ \A t \in Streams \ {s} :
                /\ (spc[t] = "idle" /\ \A u \in Streams : u < t => spc[u] # "idle")
                      => ENABLED SseOpen(t)
                /\ spc[t] = "streaming" => ENABLED Disconnect(t)
          /\ \A p \in Posts :
                (ppc[p] = "idle" /\ \A o \in Posts : o < p => ppc[o] # "idle")
                    => ENABLED PostMessage(p)

\* The first stream is blocked on its empty queue after a POST's frame went
\* through it, the second stream is open too, and a POST has yet to arrive.
C15_Witness ==
    /\ BlockedOnGet(1)
    /\ Len(delivered[1]) >= 2
    /\ spc[2] = "streaming"
    /\ \E p \in Posts : ppc[p] = "idle"

\* C16: an entry of the registry is never replaced, and it is removed only in
\* the step in which the GET handler it was created by exits; a step of a
\* POST handler leaves the registry as it was.
C16_OnlyOwnerRemoves ==
    [][/\ \A id \in DOMAIN sessions :
             (id \notin DOMAIN sessions' \/ sessions'[id] # sessions[id]) =>
                 /\ id \notin DOMAIN sessions'
                 /\ sid[sessions[id]] = id
                 /\ Live(sessions[id])
                 /\ spc'[sessions[id]] = "closed"
       /\ (\E p \in Posts : ppc'[p] # ppc[p]) => sessions' = sessions]_vars

\* A stream has exited and its session is gone, while the session of
\* another stream, still open, is registered after an accepted and a
\* rejected POST.
C16_Witness ==
    \E s, t \in Streams :
        /\ Removed(s)
        /\ Live(t) /\ sid[t] \in DOMAIN sessions
        /\ \E p, o \in Posts : pstatus[p] = 202 /\ pstatus[o] \in {400, 404}

\* A JSON-RPC request object whose method is none of the three handled.
IsUnknownMethod(payload) ==
    /\ IsObj(payload)
    /\ DictGet(payload, "method", Null)
           \notin {Str("initialize"), Str("tools/list"), Str("tools/call")}

MethodNotFoundEnvelope(payload) ==
    Obj([jsonrpc |-> Str("2.0"), id |-> IdOfRequest(payload),
         error |-> Obj([code |-> Num(MethodNotFound),
                        message |-> Str("Method not found")])])

\* C17: a request with an unknown method is answered through the success
\* path. On the session-registry transport the POST is answered 202 and its
\* one frame is a message event with the -32601 "Method not found" envelope,
\* which the GET stream delivers once it has drained its queue; on the
\* streamable transport the request ends with an ordinary JSON response
\* holding the same envelope, and no exception and no stream.
C17_MethodNotFoundOnSuccessPath ==
    /\ \A p \in Posts :
          (ppc[p] = "done" /\ pqueue[p] # NoQueue /\ IsUnknownMethod(ppayload[p])) =>
              LET frame == format_sse("message",
                                      json_dumps(MethodNotFoundEnvelope(ppayload[p])))
              IN  /\ pstatus[p] = 202
                  /\ \E i \in PutsBy(p, pqueue[p]) : enq[pqueue[p]][i].frame = frame
                  /\ BlockedOnGet(pqueue[p]) =>
                        \E k \in 1..Len(delivered[pqueue[p]]) :
                            delivered[pqueue[p]][k] = frame
    /\ \A r \in Reqs :
          (rpc[r] # "idle" /\ IsUnknownMethod(rpayload[r])) =>
              /\ rpc[r] = "done"
              /\ rresp[r] = JsonResponse(MethodNotFoundEnvelope(rpayload[r]))
              /\ rbody[r] = <<>>

\* Both transports have answered a request with an unknown method, and the
\* GET stream has delivered the error envelope.
C17_Witness ==
    /\ \E p \in Posts :
          /\ ppc[p] = "done" /\ pstatus[p] = 202 /\ IsUnknownMethod(ppayload[p])
          /\ BlockedOnGet(pqueue[p])
    /\ \E r \in Reqs : rpc[r] = "done" /\ IsUnknownMethod(rpayload[r])

\* What the streamable dispatcher answers, as one envelope: the JSON
\* response, or the terminal frame's message for a progressive call.
McpEnvelope == IF IsJson(dmcp) THEN dmcp.json ELSE JsonOf(DataOf(dfinal))
McpRaised == IsRaised(dmcp) \/ (IsStream(dmcp) /\ IsRaised(dfinal))

HasUnknownToolName(payload) ==
    /\ IsObj(payload)
    /\ DictGet(payload, "method", Null) = Str("tools/call")
    /\ IsObj(DictGet(payload, "params", EmptyObj))
    /\ DictGet(DictGet(payload, "params", EmptyObj), "name", Null) \notin RegisteredToolNames

\* C18: for every request both dispatchers have answered, the envelope of
\* the session-registry dispatcher equals the envelope of the streamable
\* dispatcher (the terminal response of a progressive call), and both raise
\* or neither does; only a tools/call with an unknown tool name differs,
\* getting -32601 from the former and -32602 from the latter.
C18_SameDispatch ==
    (dsse # NoPayload /\ dmcp # NoPayload /\ (IsStream(dmcp) => dfinal # NoPayload)) =>
        IF HasUnknownToolName(dreq) /\ ~IsRaised(dsse) /\ ~McpRaised
        THEN /\ dsse = ErrorEnvelope(IdOfRequest(dreq), MethodNotFoundError)
             /\ McpEnvelope.obj.error.obj.code = Num(InvalidParams)
        ELSE /\ IsRaised(dsse) <=> McpRaised
             /\ ~IsRaised(dsse) => dsse = McpEnvelope

\* C19: the k-th frame put on a stream's queue is eventually the k-th frame
\* the stream yields to its client, unless the client disconnects; and a
\* handler that is streaming stops streaming only in a step that is the
\* cancellation of its connection.
C19_EveryFrameForwarded ==
    /\ \A s \in Streams : \A k \in 1..(NumPosts + 1) :
          (Len(enq[s]) >= k) ~>
              (\/ spc[s] = "closed"
               \/ Len(delivered[s]) >= k /\ delivered[s][k] = enq[s][k].frame)
    /\ [][\A s \in Streams :
            (spc[s] = "streaming" /\ spc'[s] # "streaming") =>
                (spc'[s] = "closed" /\ Disconnect(s))]_vars

\* A connected stream has forwarded its endpoint frame and the frame of
\* every POST handler, and waits for more.
C19_Witness ==
    \E s \in Streams :
        /\ BlockedOnGet(s)
        /\ \A p \in Posts : PutsBy(p, s) # {}
        /\ delivered[s] = FramesOf(enq[s])

\* The progressToken the caller sent in params._meta, null when there is none.
CallerToken(payload) ==
    LET params == payload.obj.params.obj IN
    IF "_meta" \in DOMAIN params /\ IsObj(params._meta)
          /\ "progressToken" \in DOMAIN params._meta.obj
    THEN params._meta.obj.progressToken
    ELSE Null

\* C20: in the body of each progressive call, each of the first ten frames
\* is a notification without an id whose progressToken is the one its own
\* caller sent in params._meta (null when there is none), and the eleventh
\* frame, and only it, carries an id, the id of its own request.
C20_TokenAndIdPerInvocation ==
    \A r \in Reqs :
        (rresp[r] # NoPayload /\ IsStream(rresp[r])) =>
            \A i \in 1..Len(rbody[r]) :
                IF i <= ProgressSteps
                THEN /\ "id" \notin DOMAIN MessageOf(rbody[r][i])
                     /\ MessageOf(rbody[r][i]).method = Str("notifications/progress")
                     /\ MessageOf(rbody[r][i]).params.obj.progressToken
                            = CallerToken(rpayload[r])
                ELSE /\ "id" \in DOMAIN MessageOf(rbody[r][i])
                     /\ MessageOf(rbody[r][i]).id = IdOfRequest(rpayload[r])

\* Two progressive calls with different tokens and ids have run side by
\* side: one is finished, the other is between two progress frames.
C20_Witness ==
    \E r, q \in Reqs :
        /\ IsStream(rresp[r]) /\ IsStream(rresp[q])
        /\ CallerToken(rpayload[r]) # CallerToken(rpayload[q])
        /\ IdOfRequest(rpayload[r]) # IdOfRequest(rpayload[q])
        /\ rpc[r] = "done" /\ Len(rbody[r]) = ProgressSteps + 1
        /\ rpc[q] = "sleeping" /\ Len(rbody[q]) >= 2
        /\ ri[q] < ProgressSteps

====
